---- MODULE Spec2Model ----
(***************************************************************************)
(* ArchfolioAI: the portfolio session of PortfolioGenerator                *)
(* (src/src/components/portfolio-generator.tsx) and the layout output      *)
(* schema of the suggestLayout flow (src/unnamed/part_000).                *)
(*                                                                         *)
(* The React state `portfolio` is one record; every setPortfolio(prev =>   *)
(* ...) call is an operator from the previous record to the next one and   *)
(* is applied atomically, in call order (single-threaded event delivery).  *)
(* Each asynchronous continuation (upload completion, generation response) *)
(* is one action.                                                          *)
(***************************************************************************)
EXTENDS Integers, Sequences, FiniteSets, TLC

\* ---------------------------------------------------------------- bounds
MaxFiles == 2        \* files the user selects during one session
MaxBatch == 2        \* files in one FileList handed to handleImageUpload
MaxComponents == 1   \* components in one generated layout

VARIABLES
    portfolio,   \* useState<PortfolioData>: [title, images, layout]
    upload,      \* per selected file: where its forEach callback is suspended
    isPending,   \* useTransition flag of the submit transition
    outstanding, \* suggestLayout calls that have not returned yet
    request,     \* argument of the last suggestLayout call, or NoRequest
    toast,       \* title of the last toast shown
    hadLayout    \* history: whether portfolio.layout held a layout at the
                 \* moment of the running / last failed submit (FALSE once a
                 \* result is applied)

vars == <<portfolio, upload, isPending, outstanding, request, toast, hadLayout>>

Ids == 1..MaxFiles

\* ------------------------------------------------------------- JS values
\* A JS number is int + frac/10 with frac in {0, 5}; Undefined is an absent
\* field.
Num(i, f) == [kind |-> "number", int |-> i, frac |-> f]
Undefined == [kind |-> "undefined", int |-> 0, frac |-> 0]
IsNumber(v) == v.kind = "number"
IsInteger(v) == v.kind = "number" /\ v.frac = 0
\* v >= n and v <= n for an integer n
NumGe(v, n) == v.int >= n
NumLe(v, n) == v.int < n \/ (v.int = n /\ v.frac = 0)
Tenths(v) == 10 * v.int + v.frac

\* ------------------------------------------------------------------ URLs
\* URL.createObjectURL(file) yields a "blob:" URL; getDownloadURL yields an
\* https URL of the stored object images/<id>-<name>.
BlobUrl(f) == [scheme |-> "blob", file |-> f]
DownloadUrl(f) == [scheme |-> "https", file |-> f]
StartsWithBlob(url) == url.scheme = "blob"

NoLayout == [kind |-> "null"]
NoRequest == [kind |-> "none"]
NoToast == "none"

\* --------------------------------------------------- layout output schema
\* TextBoxSchema: z.object({title: z.string(), content: z.string()})
TextBoxSchema(c) == {"title", "content"} \subseteq DOMAIN c

\* first member of the content union: z.object({imageIndex: z.number()})
ImageContentSchema(c) == "imageIndex" \in DOMAIN c /\ IsNumber(c.imageIndex)

\* LayoutComponentSchema: the discriminant is one of the two enum values,
\* both spans are numbers, the content matches either member of the union.
LayoutComponentSchema(c) ==
    /\ c.type \in {"image", "text"}
    /\ IsNumber(c.gridPosition.colSpan)
    /\ IsNumber(c.gridPosition.rowSpan)
    /\ (ImageContentSchema(c.content) \/ TextBoxSchema(c.content))

\* SuggestLayoutOutputSchema: gridCols is z.number().min(1).max(12),
\* components is an array of LayoutComponentSchema.
SuggestLayoutOutputSchema(o) ==
    /\ IsNumber(o.layout.gridCols)
    /\ NumGe(o.layout.gridCols, 1)
    /\ NumLe(o.layout.gridCols, 12)
    /\ \A i \in 1..Len(o.layout.components) :
           LayoutComponentSchema(o.layout.components[i])

\* ------------------------------------- responses of the generative model
TextBox == [title |-> "Section", content |-> "lorem ipsum"]
ImageContent(i) == [imageIndex |-> Num(i, 0)]

GridColsInputs == {Num(2, 0), Num(13, 0)}
ColSpanInputs == {Num(1, 0), Num(3, 0)}
RowSpanInputs == {Num(1, 0)}
\* index 0 designates the first asset of every non-empty request; index
\* MaxFiles lies beyond the end of every request
ContentInputs == {ImageContent(0), ImageContent(MaxFiles), TextBox}

\* components that depart from a well-formed, in-range one in at most one
\* field: the span, the index or the shape of the content
ComponentInputs ==
    {c \in [type : {"image", "text"},
            gridPosition : [colSpan : ColSpanInputs, rowSpan : RowSpanInputs],
            content : ContentInputs] :
        /\ c.gridPosition.colSpan # Num(1, 0) =>
               (c.type = "image" /\ c.content = ImageContent(0))
        /\ c.content = ImageContent(MaxFiles) => c.type = "image"}

ComponentSeqs ==
    UNION {[1..n -> ComponentInputs] : n \in 0..MaxComponents}

\* the untrusted structured payloads the model may answer with
Responses ==
    {[layoutDescription |-> "description",
      layout |-> [gridCols |-> g, components |-> cs]] :
        g \in GridColsInputs, cs \in ComponentSeqs}

\* ------------------------------------------------ setPortfolio updaters
\* a slip in lines 108-111: the new preview is put in front of the array
AppendImageInFront(prev, f) ==
    [prev EXCEPT !.images =
        <<[id |-> f, url |-> BlobUrl(f), uploadProgress |-> 0]>> \o @]

\* lines 106-112: append the local preview of the selected file.  The field
\* id is a history field: the identifier line 99 gave the file whose
\* selection created this array slot; the code does not store it.
AppendImage(prev, f) ==
    [prev EXCEPT !.images =
        Append(@, [id |-> f, url |-> BlobUrl(f), uploadProgress |-> 0])]

\* line 120: the map callback of the success updater
ReconcileOne(img, downloadURL) ==
    IF StartsWithBlob(img.url)
    THEN [img EXCEPT !.url = downloadURL, !.uploadProgress = 100]
    ELSE img

\* lines 117-122
Reconcile(prev, downloadURL) ==
    [prev EXCEPT !.images =
        [i \in 1..Len(@) |-> ReconcileOne(@[i], downloadURL)]]

\* a slip in line 134: the negation of the filter predicate is missing
KeepOnlyBlob(img) == StartsWithBlob(img.url)

\* a slip in line 134: the failed placeholder is not filtered out
KeepEverything(img) == TRUE

\* line 134: the filter predicate of the failure updater
KeepOnFailure(img) == ~StartsWithBlob(img.url)

\* lines 132-135
RemoveFailed(prev) ==
    [prev EXCEPT !.images = SelectSeq(@, KeepOnFailure)]

\* lines 141-144 (index is 0-based as in the code)
RemoveAt(prev, index) ==
    [prev EXCEPT !.images =
        SubSeq(@, 1, index) \o SubSeq(@, index + 2, Len(@))]

\* a slip in line 149: the layout is not reset
KeepLayout(prev, data) == [prev EXCEPT !.title = data]

\* line 149
ClearLayout(prev, data) ==
    [prev EXCEPT !.title = data, !.layout = NoLayout]

\* line 173
SetLayout(prev, result) == [prev EXCEPT !.layout = result]

\* line 171
ImageUrls(images) == [i \in 1..Len(images) |-> images[i].url]

\* history: the slots whose URLs line 171 reads, in array order
SlotIds(images) == [i \in 1..Len(images) |-> images[i].id]

\* line 150
NoImages(images) == Len(images) = 0

\* ------------------------------------------------------------------ state
Titles == {"Lake House"}

InFlight(f) == upload[f] \in {"uploadBytes", "getDownloadURL"}

\* uuidv4() (line 99) returns a fresh identifier: identifiers are handed out
\* in increasing order, so a smaller identifier was enqueued earlier.
NextId == 1 + Cardinality({f \in Ids : upload[f] # "idle"})

Init ==
    /\ portfolio = [title |-> "", images |-> <<>>, layout |-> NoLayout]
    /\ upload = [f \in Ids |-> "idle"]
    /\ isPending = FALSE
    /\ outstanding = 0
    /\ request = NoRequest
    /\ toast = NoToast
    /\ hadLayout = FALSE

\* ----------------------------------------------------- handleImageUpload
\* lines 102-112 for the files f, f+1, .. of one FileList: each forEach
\* callback runs synchronously up to its first await, so the previews are
\* appended in file order before any upload completes.
RECURSIVE AppendBatch(_, _, _)
AppendBatch(prev, f, n) ==
    IF n = 0 THEN prev ELSE AppendBatch(AppendImage(prev, f), f + 1, n - 1)

\* handleImageUpload(files) with n = files.length >= 1 (lines 94-114)
HandleImageUpload(n) ==
    /\ NextId + n - 1 <= MaxFiles
    /\ portfolio' = AppendBatch(portfolio, NextId, n)
    /\ upload' = [f \in Ids |->
                    IF f >= NextId /\ f < NextId + n
                    THEN "uploadBytes" ELSE upload[f]]
    /\ UNCHANGED <<isPending, outstanding, request, toast, hadLayout>>

\* line 114: uploadBytes resolves, the callback awaits getDownloadURL
UploadBytesResolves(f) ==
    /\ upload[f] = "uploadBytes"
    /\ upload' = [upload EXCEPT ![f] = "getDownloadURL"]
    /\ UNCHANGED <<portfolio, isPending, outstanding, request, toast, hadLayout>>

\* lines 115-122: getDownloadURL resolves, the success updater runs
UploadSucceeds(f) ==
    /\ upload[f] = "getDownloadURL"
    /\ upload' = [upload EXCEPT ![f] = "done"]
    /\ portfolio' = Reconcile(portfolio, DownloadUrl(f))
    /\ UNCHANGED <<isPending, outstanding, request, toast, hadLayout>>

\* lines 124-136: uploadBytes or getDownloadURL rejects
UploadFails(f) ==
    /\ InFlight(f)
    /\ upload' = [upload EXCEPT ![f] = "failed"]
    /\ toast' = "Upload failed"
    /\ portfolio' = RemoveFailed(portfolio)
    /\ UNCHANGED <<isPending, outstanding, request, hadLayout>>

\* ----------------------------------------------------- handleRemoveImage
\* lines 140-145; the remove button exists for every rendered image
\* (line 329), so index ranges over the current array.
HandleRemoveImage(index) ==
    /\ index \in 0..(Len(portfolio.images) - 1)
    /\ portfolio' = RemoveAt(portfolio, index)
    /\ UNCHANGED <<upload, isPending, outstanding, request, toast, hadLayout>>

\* ---------------------------------------------------------------- onSubmit
\* a slip in line 355: the submit button is never disabled
SubmitNeverDisabled == FALSE

\* line 355: disabled={isPending}
SubmitDisabled == isPending

\* lines 147-172 (request.assets is a history field: the asset behind each
\* URL of the call).  The submit button is disabled while isPending (line 355);
\* isPending covers the whole async transition callback: it is true until
\* every suggestLayout call made inside the transition has returned.
OnSubmit(data) ==
    /\ ~SubmitDisabled
    /\ hadLayout' = (portfolio.layout # NoLayout)
    /\ portfolio' = ClearLayout(portfolio, data)
    /\ IF NoImages(portfolio.images)
       THEN /\ toast' = "No Images"
            /\ UNCHANGED <<isPending, outstanding, request>>
       ELSE /\ request' = [kind |-> "request",
                           imageUrls |-> ImageUrls(portfolio.images),
                           assets |-> SlotIds(portfolio.images)]
            /\ isPending' = TRUE
            /\ outstanding' = outstanding + 1
            /\ UNCHANGED toast
    /\ UNCHANGED upload

\* lines 169-177: suggestLayout resolves with a payload that passed the
\* flow's outputSchema (part_000 lines 74-84)
SuggestLayoutResolves(raw) ==
    /\ outstanding > 0
    /\ SuggestLayoutOutputSchema(raw)
    /\ portfolio' = SetLayout(portfolio, raw)
    /\ toast' = "Layout Generated!"
    /\ outstanding' = outstanding - 1
    /\ isPending' = (outstanding' > 0)
    /\ hadLayout' = FALSE
    /\ UNCHANGED <<upload, request>>

\* lines 178-185: suggestLayout rejects, because the collaborator failed or
\* because its payload raw violated the outputSchema
SuggestLayoutRejects(raw) ==
    /\ outstanding > 0
    /\ ~SuggestLayoutOutputSchema(raw)
    /\ toast' = "An error occurred."
    /\ outstanding' = outstanding - 1
    /\ isPending' = (outstanding' > 0)
    /\ UNCHANGED <<portfolio, upload, request, hadLayout>>

Next ==
    \/ \E n \in 1..MaxBatch : HandleImageUpload(n)
    \/ \E f \in Ids : UploadBytesResolves(f)
    \/ \E f \in Ids : UploadSucceeds(f)
    \/ \E f \in Ids : UploadFails(f)
    \/ \E index \in 0..(MaxFiles - 1) : HandleRemoveImage(index)
    \/ \E data \in Titles : OnSubmit(data)
    \/ \E raw \in Responses : SuggestLayoutResolves(raw)
    \/ \E raw \in Responses : SuggestLayoutRejects(raw)

Spec == Init /\ [][Next]_vars

TypeOK ==
    /\ upload \in [Ids -> {"idle", "uploadBytes", "getDownloadURL", "done", "failed"}]
    /\ isPending \in BOOLEAN
    /\ outstanding \in Nat
    /\ Len(portfolio.images) <= MaxFiles

\* ------------------------------------------- the output schema on its own
\* gridCols values at and around the limits of .min(1).max(12), a
\* non-integer inside them and an absent field
SchemaGridColsInputs ==
    {Undefined, Num(0, 0), Num(0, 5), Num(1, 0), Num(2, 5), Num(12, 0),
     Num(12, 5), Num(13, 0)}

SchemaResponses ==
    {[layoutDescription |-> "description",
      layout |-> [gridCols |-> g, components |-> cs]] :
        g \in SchemaGridColsInputs, cs \in ComponentSeqs}

\* the session with uploads that all succeed and the model answering with
\* any of SchemaResponses
SchemaNext ==
    \/ \E n \in 1..MaxBatch : HandleImageUpload(n)
    \/ \E f \in Ids : UploadBytesResolves(f)
    \/ \E f \in Ids : UploadSucceeds(f)
    \/ \E data \in Titles : OnSubmit(data)
    \/ \E raw \in SchemaResponses : SuggestLayoutResolves(raw)
    \/ \E raw \in SchemaResponses : SuggestLayoutRejects(raw)

SchemaSpec == Init /\ [][SchemaNext]_vars

\* ------------------------------------------------ the ingestion pipeline
\* the continuation of the upload of f that runs next: uploadBytes settles,
\* then getDownloadURL settles (lines 114-136)
UploadCompletes(f) ==
    UploadBytesResolves(f) \/ UploadSucceeds(f) \/ UploadFails(f)

\* every started upload eventually settles: the store answers each
\* uploadBytes / getDownloadURL call with a result or an error
FairSpec == Spec /\ \A f \in Ids : WF_vars(UploadCompletes(f))

\* ================================================================ claims
Images == portfolio.images
Present(f) == \E i \in 1..Len(Images) : Images[i].id = f
IsDurable(img) == img.uploadProgress = 100
DurableCount(images) ==
    Cardinality({i \in 1..Len(images) : IsDurable(images[i])})
DurableRecord(f) == [id |-> f, url |-> DownloadUrl(f), uploadProgress |-> 100]
ErrorToast == "An error occurred."
HasLayout == portfolio.layout # NoLayout
Components == portfolio.layout.layout.components
\* the consumption test of the renderer, line 441
IsImageComponent(c) == c.type = "image" /\ "imageIndex" \in DOMAIN c.content

\* C1: when the upload of record f succeeds, only the record of f changes:
\* it becomes Durable with the URL of its own file, every other record keeps
\* its state and reference.
C1_SuccessTouchesOnlyOwnRecord ==
    [][\A f \in Ids : UploadSucceeds(f) =>
          portfolio'.images =
              [i \in 1..Len(Images) |->
                  IF Images[i].id = f THEN DurableRecord(f) ELSE Images[i]]]_vars

\* C2: when the upload of record f fails, exactly the record of f is deleted;
\* the other records stay, in the same relative order.
C2_FailureDeletesOnlyOwnRecord ==
    [][\A f \in Ids : UploadFails(f) =>
          LET Survives(img) == img.id # f
          IN  portfolio'.images = SelectSeq(Images, Survives)]_vars

\* C3: the completion callback (success or failure) of an upload whose
\* record was removed while it was in flight changes no record.
C3_LateCallbackIsNoOp ==
    [][\A f \in Ids :
          (~Present(f) /\ (UploadSucceeds(f) \/ UploadFails(f))) =>
              portfolio'.images = Images]_vars

C5_SubmitWithoutDurableIsNoAssets ==
    [][\A data \in Titles :
          (OnSubmit(data) /\ DurableCount(Images) = 0) =>
              (toast' = "No Images" /\ ~isPending' /\ request' = request)]_vars

\* C6: every URL passed to the generation collaborator is a durable remote
\* URL, never a local preview reference.
C6_RequestHoldsOnlyDurableUrls ==
    request # NoRequest =>
        \A i \in 1..Len(request.imageUrls) :
            ~StartsWithBlob(request.imageUrls[i])

C8_FailureRestoresPriorLayout ==
    (toast = ErrorToast /\ ~isPending) => (HasLayout <=> hadLayout)

\* C8 amended: after a failed submit the session layout is none, whatever
\* it held before the submit.
C8_FailureLeavesNoLayout ==
    toast = ErrorToast => portfolio.layout = NoLayout

\* C8 witness: a submit triggered while a layout was held has failed.
C8_Witness == toast = ErrorToast /\ ~isPending /\ hadLayout

\* C9: in every accepted layout each image component's imageIndex is an
\* integer in [0, assetCount), assetCount being the length of the imageUrls
\* sent with the request.
C9_ImageIndexInRange ==
    HasLayout =>
        \A i \in 1..Len(Components) :
            IsImageComponent(Components[i]) =>
                /\ IsInteger(Components[i].content.imageIndex)
                /\ Components[i].content.imageIndex.int >= 0
                /\ Components[i].content.imageIndex.int < Len(request.imageUrls)

\* C10: in every accepted layout every component has
\* 1 <= colSpan <= gridCols and rowSpan >= 1.
C10_SpansWithinGrid ==
    HasLayout =>
        \A i \in 1..Len(Components) :
            /\ NumGe(Components[i].gridPosition.colSpan, 1)
            /\ Tenths(Components[i].gridPosition.colSpan)
                   <= Tenths(portfolio.layout.layout.gridCols)
            /\ NumGe(Components[i].gridPosition.rowSpan, 1)

\* C11: a candidate whose gridCols is absent, not an integer or outside
\* [1,12] is rejected and stores no layout: every layout held by the session
\* has an integer gridCols in [1,12].
C11_StoredGridColsIsIntegerInRange ==
    HasLayout =>
        /\ IsInteger(portfolio.layout.layout.gridCols)
        /\ NumGe(portfolio.layout.layout.gridCols, 1)
        /\ NumLe(portfolio.layout.layout.gridCols, 12)

\* C12: in every accepted layout each component is a well-formed tagged
\* variant: the discriminant is image or text, an image component carries an
\* imageIndex, a text component carries a title and a content.
C12_ContentAgreesWithDiscriminant ==
    HasLayout =>
        \A i \in 1..Len(Components) :
            /\ Components[i].type \in {"image", "text"}
            /\ Components[i].type = "image" =>
                   "imageIndex" \in DOMAIN Components[i].content
            /\ Components[i].type = "text" =>
                   {"title", "content"} \subseteq DOMAIN Components[i].content

\* line 442: the asset portfolio.images[imageIndex] designates among the
\* slots ids (0: undefined, no asset)
Designated(ids, imageIndex) ==
    IF IsInteger(imageIndex) /\ imageIndex.int + 1 \in DOMAIN ids
    THEN ids[imageIndex.int + 1] ELSE 0

\* C14: whenever the session holds a layout, every image component's
\* imageIndex designates in the current asset sequence the asset it
\* designated in the imageUrls sent with the request that produced the layout.
C14_ImageIndexKeepsItsAsset ==
    HasLayout =>
        \A i \in 1..Len(Components) :
            IsImageComponent(Components[i]) =>
                Designated(SlotIds(Images), Components[i].content.imageIndex)
                    = Designated(request.assets, Components[i].content.imageIndex)

RecordIsDurable(f) ==
    \E i \in 1..Len(Images) : Images[i].id = f /\ IsDurable(Images[i])

\* C15: when every started upload eventually succeeds or fails, every
\* enqueued record eventually is Durable or absent from the sequence: from
\* any moment on, a moment comes at which the record of f is not in the
\* sequence as an uploading preview.
C15_NoRecordUploadsForever ==
    \A f \in Ids :
        []<>(~Present(f) \/ RecordIsDurable(f))

\* C15 witness: one upload has succeeded and its record is Durable, the
\* other has failed and its record is absent.
C15_Witness ==
    \E f, g \in Ids :
        /\ upload[f] = "done" /\ RecordIsDurable(f)
        /\ upload[g] = "failed" /\ ~Present(g)

\* C16: a Durable record is stable: no step changes its URL or state or
\* deletes it, except handleRemoveImage called on that very record.
C16_DurableRecordIsStable ==
    [][\A i \in 1..Len(Images) :
          IsDurable(Images[i]) =>
              \/ \E j \in 1..Len(portfolio'.images) :
                     portfolio'.images[j] = Images[i]
              \/ HandleRemoveImage(i - 1)]_vars

\* C16 witness: record 1 is Durable and present after the upload of record
\* 2, enqueued later, has failed: the failure callback ran over it.
C16_Witness == RecordIsDurable(1) /\ upload[2] = "failed"

\* C17: at most one generation request is outstanding at any time, so the
\* call whose result is written to the session is the only one there is: the
\* one made by the most recently triggered submit.
C17_OneGenerationAtATime == outstanding <= 1

\* C17 witness: a generation is outstanding after an earlier one returned.
C17_Witness ==
    /\ outstanding = 1
    /\ toast \in {"Layout Generated!", ErrorToast}
====
